---- MODULE Spec2Model ----
(***************************************************************************)
(* Model of telegram-pharmacy-cloud-bot.py: the PDF corpus builder and its *)
(* cache file, the promotions loader, the model resolver and the two       *)
(* serving surfaces (the Telegram handlers and the Flask /consulta route)  *)
(* that run concurrently and share the files on disk.  The commands that   *)
(* write no file and call no resolver (/start, /promos, /info, /modelos,   *)
(* /ping) are left out.                                                    *)
(*                                                                         *)
(* A step is one access to the shared files together with the thread-local *)
(* code around it; load_all_pdfs reads the folder and its PDFs in one step. *)
(*                                                                         *)
(* Python str values are TLA+ strings: Len, \o and SubSeq act on them as   *)
(* len, + and slicing do.                                                  *)
(***************************************************************************)
EXTENDS Integers, Sequences, FiniteSets, TLC

(* ------------------------------ bounds --------------------------------- *)
\* Number of distinct PDF file names the operator may place in PDF_FOLDER.
MaxPdfs == 2
\* Longest model listing models.list returns.
MaxModels == 2
\* Longest completion text, counted in chunks of MAX_LEN.
MaxChunks == 2

(* ------------------------- program constants --------------------------- *)
PREFERRED_ALIAS == "claude-sonnet-4-5"
MAX_LEN == 3900
BannerWidth == 60

\* The texts the handlers send, without their emoji and accents.
NoDataReply == "Sin datos. Coloca PDFs y Excel, luego usa /actualizar y /promos."
NoDataError == "Sin datos cargados"
ReloadingReply == "Recargando catalogo..."
NoPdfsReply == "No hay PDFs en 'catalogos_pdfs'"
CatalogReadyReply(n) == "Catalogo listo (" \o ToString(n) \o " chars)"
AiErrorReply == "Error consultando IA: APIError"
NoContent == "(Sin contenido)"

(* ------------------------------ helpers -------------------------------- *)
Min(a, b) == IF a < b THEN a ELSE b

\* s * n
RECURSIVE Rep(_, _)
Rep(s, n) == IF n <= 0 THEN ""
             ELSE LET h == Rep(s, n \div 2)
                  IN IF n % 2 = 0 THEN h \o h ELSE h \o h \o s

\* s[a:b] for 0 <= a
Slice(s, a, b) == SubSeq(s, a + 1, Min(b, Len(s)))

\* p in s
Contains(s, p) == \E i \in 1..(Len(s) - Len(p) + 1) : SubSeq(s, i, i + Len(p) - 1) = p

\* "".join(parts)
RECURSIVE Join(_)
Join(parts) == IF parts = <<>> THEN "" ELSE Head(parts) \o Join(Tail(parts))

\* sep.join(parts)
RECURSIVE JoinWith(_, _)
JoinWith(sep, parts) == IF parts = <<>> THEN ""
                        ELSE IF Len(parts) = 1 THEN Head(parts)
                        ELSE Head(parts) \o sep \o JoinWith(sep, Tail(parts))

(* ------------------------------ files ---------------------------------- *)
\* A source file is [kind, parts]: kind "absent" (the path does not exist),
\* "corrupt" (PyPDF2 / openpyxl raises on it) or "ok"; parts are the pages of a
\* PDF (each page's extract_text() result, None and "" both as "") or the
\* sheets of a workbook.
NoFile == [kind |-> "absent", parts |-> <<>>]
Corrupt == [kind |-> "corrupt", parts |-> <<>>]
Readable(parts) == [kind |-> "ok", parts |-> parts]

\* CATALOG_FILE is [exists, content].
NoCache == [exists |-> FALSE, content |-> ""]
CacheWith(text) == [exists |-> TRUE, content |-> text]

\* File names the operator uses, in lexicographic order.
AllNames == <<"a.pdf", "b.pdf", "c.pdf", "d.pdf">>
Names == {AllNames[i] : i \in 1..MaxPdfs}

\* PDFs the operator may drop in the folder: unreadable, without pages, with one
\* page that has no text, and with two pages of which the second has no text.
GoodPdf == Readable(<<"Paracetamol 500mg S/ 2.50", "">>)
PdfFiles == {Corrupt, Readable(<<>>), Readable(<<"">>), GoodPdf}

\* Workbooks: each sheet is [name, table], table being df.to_string() after
\* fillna("-").
Workbook == Readable(<<[name |-> "PROMOS", table |-> "COD PROMO\n101 2x1\n102 -"]>>)
PromoFiles == {NoFile, Corrupt, Workbook}

Procs == {"tg", "web"}
Queries == {"message", "consulta"}

VARIABLES
    pdfDirExists,   \* PDF_FOLDER is a directory
    pdfs,           \* PDF_FOLDER/*.pdf: name -> file or NoFile
    cacheFile,      \* CATALOG_FILE
    promoFile,      \* PROMO_FILE
    pc,             \* position of each serving thread
    req,            \* the handler each thread runs
    full_catalog,   \* load_all_pdfs: the corpus about to be written
    replaced,       \* history: the content the thread's open(.., "w") discarded
    catalog,        \* get_catalog() / load_all_pdfs() result
    catalog_from,   \* history: "cache" (line 65) or "build" (line 66) returned it
    promo_text,     \* load_promotions_and_bonuses() result
    calls,          \* inference-backend calls of the request, each with its answer
    out,            \* replies sent / HTTP response returned by the request
    raised          \* an exception left the handler

fsVars == <<pdfDirExists, pdfs, cacheFile, promoFile>>
locVars == <<full_catalog, replaced, catalog, catalog_from, promo_text>>
obsVars == <<calls, out, raised>>
vars == <<pdfDirExists, pdfs, cacheFile, promoFile, pc, req, full_catalog, replaced,
          catalog, catalog_from, promo_text, calls, out, raised>>

(* ----------------------------- PDFs ------------------------------------ *)
\* lines 32-43
extract_text_from_pdf(f) ==
    IF f.kind # "ok" THEN ""
    ELSE Join([i \in 1..Len(f.parts) |-> f.parts[i] \o "\n"])

Banner == Rep("=", BannerWidth)

\* line 56, one document's section
Section(name, text) ==
    "\n" \o Banner \o "\nARCHIVO: " \o name \o "\n" \o Banner \o "\n" \o text

\* line 47 and the sorted() of line 52
SortedPdfFiles(dir) == SelectSeq(SubSeq(AllNames, 1, MaxPdfs), LAMBDA n : dir[n] # NoFile)

\* The guard of line 48 left out: the build goes on over no files.
NoPdfFilesUnchecked(files) == FALSE

\* line 48
NoPdfFiles(files) == files = <<>>

\* The build gives up at the first document without text.
RECURSIVE BuildCatalogAbortOnFailure(_, _)
BuildCatalogAbortOnFailure(dir, files) ==
    IF files = <<>> THEN ""
    ELSE LET text == extract_text_from_pdf(dir[Head(files)])
         IN IF text = "" THEN ""
            ELSE Section(Head(files), text) \o BuildCatalogAbortOnFailure(dir, Tail(files))

\* lines 51-56, over the sorted files
RECURSIVE BuildCatalog(_, _)
BuildCatalog(dir, files) ==
    IF files = <<>> THEN ""
    ELSE LET text == extract_text_from_pdf(dir[Head(files)])
         IN (IF text # "" THEN Section(Head(files), text) ELSE "")
            \o BuildCatalog(dir, Tail(files))

\* The file opened without truncation (mode "r+" on an existing file).
OpenKeepingContent(file) == CacheWith(file.content)

\* line 57: open(CATALOG_FILE, "w") creates or truncates the file
OpenForWrite(file) == CacheWith("")

\* lines 58-60: the file after text is written at offset 0 through that
\* descriptor (the buffered text reaches the file when the with block closes it)
WriteAtStart(old, text) ==
    text \o SubSeq(old, Len(text) + 1, Len(old))

\* The cache is never trusted: every get_catalog rebuilds.
CacheNeverTrusted(file) == FALSE

\* line 63
CacheExists(file) == file.exists

(* ----------------------------- Excel ----------------------------------- *)
\* lines 76-81
SheetBlocks(sheets) ==
    [i \in 1..(2 * Len(sheets)) |->
        IF i % 2 = 1
        THEN "\n" \o Banner \o "\nHOJA: " \o sheets[(i + 1) \div 2].name \o "\n" \o Banner \o "\n"
        ELSE sheets[i \div 2].table]

\* lines 69-85
load_promotions_and_bonuses(f) ==
    IF f.kind = "absent" THEN ""
    ELSE IF f.kind = "corrupt" THEN "(Error leyendo Excel: BadZipFile)"
    ELSE JoinWith("\n", SheetBlocks(f.parts))

\* line 90
Combined(catalog_text, promos) ==
    "CATALOGO DE PRODUCTOS:\n" \o catalog_text
        \o "\n\nPROMOCIONES Y BONIFICACIONES:\n" \o promos

\* lines 87-91, from what the thread has read
Knowledge(p) == Combined(catalog[p], promo_text[p])

(* ------------------------- inference backend --------------------------- *)
\* models.list answers [ok, ids]; the call raises when ok is FALSE.
ListFailure == [ok |-> FALSE, ids |-> <<>>]
Listing(ids) == [ok |-> TRUE, ids |-> ids]

ModelIds == {"m1", "claude-haiku-10", "claude-3-haiku", "claude-sonnet-20", "claude-3-sonnet"}
SeqsUpTo(S, n) == UNION {[1..k -> S] : k \in 0..n}
Listings == {ListFailure} \cup {Listing(ids) : ids \in SeqsUpTo(ModelIds, MaxModels)}
SomeListings == {Listing(<<"claude-haiku-10">>)}

\* messages.create answers [ok, content]; content is the message's blocks
\* [type, text].
CreateFailure == [ok |-> FALSE, content |-> <<>>]
Created(content) == [ok |-> TRUE, content |-> content]
TextBlock(t) == [type |-> "text", text |-> t]
ToolBlock == [type |-> "tool_use", text |-> "ignored"]

Pattern == "abcdefg"
LongText == Rep(Pattern, (MaxChunks * MAX_LEN) \div Len(Pattern) + 1)
TextOfLen(n) == SubSeq(LongText, 1, n)
TextLens == {0, 1, MAX_LEN - 1, MAX_LEN, MAX_LEN + 1}
                \cup {k * MAX_LEN : k \in 2..MaxChunks}
                \cup {k * MAX_LEN - 1 : k \in 2..MaxChunks}
                \cup {(k - 1) * MAX_LEN + 1 : k \in 2..MaxChunks}
Completions ==
    {CreateFailure, Created(<<>>), Created(<<ToolBlock>>),
     Created(<<TextBlock("Hay "), ToolBlock, TextBlock("2x1")>>)}
        \cup {Created(<<TextBlock(TextOfLen(n))>>) : n \in TextLens}
SomeCompletions == {CreateFailure, Created(<<TextBlock("Hay 2x1")>>)}

\* One call as the request's trace keeps it: what was asked and what came back.
ProbeCall(ok) ==
    [op |-> "probe", model |-> PREFERRED_ALIAS, ok |-> ok, ids |-> <<>>, content |-> <<>>]
ListCall(listing) ==
    [op |-> "list", model |-> "", ok |-> listing.ok, ids |-> listing.ids, content |-> <<>>]
CreateCall(model, completion) ==
    [op |-> "create", model |-> model, ok |-> completion.ok, ids |-> <<>>,
     content |-> completion.content]

NoModel == ""

\* lines 120-121 and 122-123: the first identifier containing sub
RECURSIVE FirstContaining(_, _)
FirstContaining(ids, sub) ==
    IF ids = <<>> THEN NoModel
    ELSE IF Contains(Head(ids), sub) THEN Head(ids)
    ELSE FirstContaining(Tail(ids), sub)

\* One loop that takes the first identifier matching either substring.
RECURSIVE ScanModelsFirstMatch(_)
ScanModelsFirstMatch(ids) ==
    IF ids = <<>> THEN NoModel
    ELSE IF Contains(Head(ids), "sonnet") \/ Contains(Head(ids), "haiku") THEN Head(ids)
    ELSE ScanModelsFirstMatch(Tail(ids))

\* lines 120-124, over the listing that came back
ScanModels(ids) ==
    IF FirstContaining(ids, "sonnet") # NoModel THEN FirstContaining(ids, "sonnet")
    ELSE FirstContaining(ids, "haiku")

\* The listing is fetched and scanned whatever the probe answered.
pick_available_model_always_lists(probeOk, listing) ==
    IF ~listing.ok
    THEN [raised |-> TRUE, model |-> NoModel,
          calls |-> <<ProbeCall(probeOk), ListCall(listing)>>]
    ELSE [raised |-> ScanModels(listing.ids) = NoModel, model |-> ScanModels(listing.ids),
          calls |-> <<ProbeCall(probeOk), ListCall(listing)>>]

\* lines 110-124: [raised, model, calls]
pick_available_model(probeOk, listing) ==
    IF probeOk
    THEN [raised |-> FALSE, model |-> PREFERRED_ALIAS, calls |-> <<ProbeCall(TRUE)>>]
    ELSE IF ~listing.ok
    THEN [raised |-> TRUE, model |-> NoModel,
          calls |-> <<ProbeCall(FALSE), ListCall(listing)>>]
    ELSE [raised |-> ScanModels(listing.ids) = NoModel, model |-> ScanModels(listing.ids),
          calls |-> <<ProbeCall(FALSE), ListCall(listing)>>]

\* lines 205 and 230
ResponseText(content) ==
    LET texts == SelectSeq(content, LAMBDA b : b.type = "text")
        joined == Join([i \in 1..Len(texts) |-> texts[i].text])
    IN IF joined = "" THEN NoContent ELSE joined

\* Slices one character short: text[i : i + MAX_LEN - 1].
RECURSIVE ChunksOneShort(_, _)
ChunksOneShort(text, i) ==
    IF i >= Len(text) THEN <<>>
    ELSE <<Slice(text, i, i + MAX_LEN - 1)>> \o ChunksOneShort(text, i + MAX_LEN)

\* lines 206-208: the slices sent, from offset i on
RECURSIVE Chunks(_, _)
Chunks(text, i) ==
    IF i >= Len(text) THEN <<>>
    ELSE <<Slice(text, i, i + MAX_LEN)>> \o Chunks(text, i + MAX_LEN)

\* line 133
ReloadReply(cat) == IF cat # "" THEN CatalogReadyReply(Len(cat)) ELSE NoPdfsReply

\* lines 192 and 220
NoDataAnswer(p) ==
    IF p = "tg" THEN <<NoDataReply>> ELSE <<[status |-> 400, body |-> NoDataError]>>

(* ------------------------------ state ---------------------------------- *)
EmptyDir == [n \in Names |-> NoFile]

\* The threads before their first request.
InitThreads ==
    /\ pc = [p \in Procs |-> "idle"]
    /\ req = [p \in Procs |-> "none"]
    /\ full_catalog = [p \in Procs |-> ""]
    /\ replaced = [p \in Procs |-> ""]
    /\ catalog = [p \in Procs |-> ""]
    /\ catalog_from = [p \in Procs |-> ""]
    /\ promo_text = [p \in Procs |-> ""]
    /\ calls = [p \in Procs |-> <<>>]
    /\ out = [p \in Procs |-> <<>>]
    /\ raised = [p \in Procs |-> FALSE]

\* A fresh deployment: no folder, no cache, no workbook.
Init ==
    /\ pdfs = EmptyDir
    /\ pdfDirExists = FALSE
    /\ cacheFile = NoCache
    /\ promoFile = NoFile
    /\ InitThreads

\* A deployment whose folder and workbook the operator may have filled.
InitDeployed ==
    /\ pdfs \in {EmptyDir, [n \in Names |-> GoodPdf]}
    /\ pdfDirExists \in {b \in BOOLEAN : pdfs # EmptyDir => b}
    /\ cacheFile = NoCache
    /\ promoFile \in {NoFile, Workbook}
    /\ InitThreads

(* --------------------------- the operator ------------------------------ *)
PutPdf(n, f) ==
    /\ pdfs[n] # f
    /\ pdfs' = [pdfs EXCEPT ![n] = f]
    /\ pdfDirExists' = TRUE
    /\ UNCHANGED <<cacheFile, promoFile, pc, req, locVars, obsVars>>

RemovePdf(n) ==
    /\ pdfs[n] # NoFile
    /\ pdfs' = [pdfs EXCEPT ![n] = NoFile]
    /\ UNCHANGED <<pdfDirExists, cacheFile, promoFile, pc, req, locVars, obsVars>>

PutPromo(f) ==
    /\ promoFile # f
    /\ promoFile' = f
    /\ UNCHANGED <<pdfDirExists, pdfs, cacheFile, pc, req, locVars, obsVars>>

(* ---------------------------- the handlers ----------------------------- *)
\* A thread that runs no handler takes the next request.
Free(p) == pc[p] \in {"idle", "done"}

\* A handler starts: what the previous request showed is replaced by this
\* request's.
Begin(p, handler, at, replies) ==
    /\ pc' = [pc EXCEPT ![p] = at]
    /\ req' = [req EXCEPT ![p] = handler]
    /\ calls' = [calls EXCEPT ![p] = <<>>]
    /\ out' = [out EXCEPT ![p] = replies]
    /\ raised' = [raised EXCEPT ![p] = FALSE]
    /\ UNCHANGED <<fsVars, locVars>>

\* The handler returns or raises: its locals are gone.
End(p) ==
    /\ pc' = [pc EXCEPT ![p] = "done"]
    /\ full_catalog' = [full_catalog EXCEPT ![p] = ""]
    /\ replaced' = [replaced EXCEPT ![p] = ""]
    /\ catalog' = [catalog EXCEPT ![p] = ""]
    /\ catalog_from' = [catalog_from EXCEPT ![p] = ""]
    /\ promo_text' = [promo_text EXCEPT ![p] = ""]

\* line 63, at the start of get_catalog
GetCatalogAt(file) == IF CacheExists(file) THEN "gc_read" ELSE "lap_glob"

\* lines 187-190, 87-88, 62-63
handle_message ==
    /\ Free("tg")
    /\ Begin("tg", "message", GetCatalogAt(cacheFile), <<>>)

\* lines 130-132
reload_command ==
    /\ Free("tg")
    /\ Begin("tg", "actualizar", "lap_glob", <<ReloadingReply>>)

\* lines 215-218, 87-88, 62-63
consulta ==
    /\ Free("web")
    /\ Begin("web", "consulta", GetCatalogAt(cacheFile), <<>>)

\* The catalog text cat reaches the caller of load_all_pdfs / get_catalog:
\* reload_command (line 133) reports it; get_full_knowledge (lines 88-91) joins
\* it with the promotions and the handler tests the result (lines 191-193,
\* 219-220).
Deliver(p, cat, from) ==
    IF req[p] = "actualizar"
    THEN /\ out' = [out EXCEPT ![p] = Append(@, ReloadReply(cat))]
         /\ End(p)
         /\ UNCHANGED <<req, calls, raised>>
    ELSE LET promo == load_promotions_and_bonuses(promoFile)
         IN IF Combined(cat, promo) = ""
            THEN /\ out' = [out EXCEPT ![p] = NoDataAnswer(p)]
                 /\ End(p)
                 /\ UNCHANGED <<req, calls, raised>>
            ELSE /\ catalog' = [catalog EXCEPT ![p] = cat]
                 /\ catalog_from' = [catalog_from EXCEPT ![p] = from]
                 /\ promo_text' = [promo_text EXCEPT ![p] = promo]
                 /\ pc' = [pc EXCEPT ![p] = "ask"]
                 /\ full_catalog' = [full_catalog EXCEPT ![p] = ""]
                 /\ replaced' = [replaced EXCEPT ![p] = ""]
                 /\ UNCHANGED <<req, obsVars>>

\* lines 64-65
GetCatalogRead(p) ==
    /\ pc[p] = "gc_read"
    /\ Deliver(p, cacheFile.content, "cache")
    /\ UNCHANGED fsVars

\* lines 46-56
LoadGlob(p) ==
    /\ pc[p] = "lap_glob"
    /\ pdfDirExists' = TRUE
    /\ IF NoPdfFiles(SortedPdfFiles(pdfs))
       THEN Deliver(p, "", "build")
       ELSE /\ full_catalog' = [full_catalog EXCEPT ![p] =
                                   BuildCatalog(pdfs, SortedPdfFiles(pdfs))]
            /\ pc' = [pc EXCEPT ![p] = "lap_open"]
            /\ UNCHANGED <<req, replaced, catalog, catalog_from, promo_text, obsVars>>
    /\ UNCHANGED <<pdfs, cacheFile, promoFile>>

\* line 57
LoadOpen(p) ==
    /\ pc[p] = "lap_open"
    /\ cacheFile' = OpenForWrite(cacheFile)
    /\ replaced' = [replaced EXCEPT ![p] = cacheFile.content]
    /\ pc' = [pc EXCEPT ![p] = "lap_write"]
    /\ UNCHANGED <<pdfDirExists, pdfs, promoFile, req, full_catalog, catalog,
                   catalog_from, promo_text, obsVars>>

\* lines 58-60
LoadWrite(p) ==
    /\ pc[p] = "lap_write"
    /\ cacheFile' = CacheWith(WriteAtStart(cacheFile.content, full_catalog[p]))
    /\ Deliver(p, full_catalog[p], "build")
    /\ UNCHANGED <<pdfDirExists, pdfs, promoFile>>

\* lines 194-208
TgAsk(listings, completions) ==
    /\ pc["tg"] = "ask"
    /\ \E probeOk \in BOOLEAN, listing \in listings, completion \in completions :
        LET r == pick_available_model(probeOk, listing)
        IN IF r.raised
           THEN /\ raised' = [raised EXCEPT !["tg"] = TRUE]
                /\ calls' = [calls EXCEPT !["tg"] = r.calls]
                /\ UNCHANGED out
           ELSE /\ calls' = [calls EXCEPT !["tg"] =
                                Append(r.calls, CreateCall(r.model, completion))]
                /\ out' = [out EXCEPT !["tg"] =
                              IF ~completion.ok THEN <<AiErrorReply>>
                              ELSE Chunks(ResponseText(completion.content), 0)]
                /\ UNCHANGED raised
    /\ End("tg")
    /\ UNCHANGED <<fsVars, req>>

\* lines 221-232
WebAsk(listings, completions) ==
    /\ pc["web"] = "ask"
    /\ \E probeOk \in BOOLEAN, listing \in listings, completion \in completions :
        LET r == pick_available_model(probeOk, listing)
        IN IF r.raised
           THEN /\ raised' = [raised EXCEPT !["web"] = TRUE]
                /\ calls' = [calls EXCEPT !["web"] = r.calls]
                /\ UNCHANGED out
           ELSE /\ calls' = [calls EXCEPT !["web"] =
                                Append(r.calls, CreateCall(r.model, completion))]
                /\ raised' = [raised EXCEPT !["web"] = ~completion.ok]
                /\ out' = [out EXCEPT !["web"] =
                              IF ~completion.ok THEN <<>>
                              ELSE <<[status |-> 200,
                                      body |-> ResponseText(completion.content)]>>]
    /\ End("web")
    /\ UNCHANGED <<fsVars, req>>

(* -------------------------- specifications ----------------------------- *)
\* Both serving threads (lines 248-250) and the operator, who fills the folder
\* with readable PDFs and places or removes the workbook.
Next ==
    \/ \E n \in Names : PutPdf(n, GoodPdf)
    \/ \E n \in Names : RemovePdf(n)
    \/ \E f \in {NoFile, Workbook} : PutPromo(f)
    \/ handle_message
    \/ reload_command
    \/ consulta
    \/ \E p \in Procs : GetCatalogRead(p)
    \/ \E p \in Procs : LoadGlob(p)
    \/ \E p \in Procs : LoadOpen(p)
    \/ \E p \in Procs : LoadWrite(p)
    \/ TgAsk(SomeListings, SomeCompletions)
    \/ WebAsk(SomeListings, SomeCompletions)

Spec == Init /\ [][Next]_vars

\* The Telegram thread alone and an operator who drops any kind of PDF.
NextCatalog ==
    \/ \E n \in Names, f \in PdfFiles : PutPdf(n, f)
    \/ \E n \in Names : RemovePdf(n)
    \/ handle_message
    \/ reload_command
    \/ GetCatalogRead("tg")
    \/ LoadGlob("tg")
    \/ LoadOpen("tg")
    \/ LoadWrite("tg")
    \/ TgAsk(SomeListings, SomeCompletions)

SpecCatalog == Init /\ [][NextCatalog]_vars

\* Free-text messages alone, over every listing and completion of the bounds.
NextDispatch ==
    \/ handle_message
    \/ GetCatalogRead("tg")
    \/ LoadGlob("tg")
    \/ LoadOpen("tg")
    \/ LoadWrite("tg")
    \/ TgAsk(Listings, Completions)

SpecDispatch == InitDeployed /\ [][NextDispatch]_vars

(* ------------------------------ claims --------------------------------- *)
Other(p) == IF p = "tg" THEN "web" ELSE "tg"
Matching(ids, sub) == {i \in 1..Len(ids) : Contains(ids[i], sub)}
Least(S) == CHOOSE i \in S : \A j \in S : i <= j
Occurrences(s, sub) ==
    Cardinality({i \in 1..(Len(s) - Len(sub) + 1) : SubSeq(s, i, i + Len(sub) - 1) = sub})
Header(n) == "\n" \o Banner \o "\nARCHIVO: " \o n \o "\n" \o Banner \o "\n"
Eligible(dir) == {n \in Names : dir[n] # NoFile}
WithText(dir) == {n \in Names : extract_text_from_pdf(dir[n]) # ""}
\* p's step is the file read of get_catalog (lines 64-65).
ReadsCache(p) == pc[p] = "gc_read" /\ pc'[p] # "gc_read"
\* p's step is load_all_pdfs up to its first return or to the open (lines 46-56).
Globs(p) == pc[p] = "lap_glob" /\ pc'[p] # "lap_glob"
\* The knowledge base is empty: no PDF, no cache file, no workbook.
EmptyKnowledgeBase == pdfs = EmptyDir /\ ~cacheFile.exists /\ promoFile = NoFile

\* C1: a query (handle_message or /consulta) over an empty knowledge base is
\* answered with the no-data message / error payload and calls the inference
\* backend not at all: the step a handler takes from the point after
\* get_full_knowledge, holding the knowledge of an empty knowledge base, leaves
\* the request's call trace empty and its answer the no-data one.
C1_EmptyKnowledgeNoBackendCall ==
    [][\A p \in Procs :
         (/\ EmptyKnowledgeBase
          /\ req[p] \in Queries
          /\ pc[p] = "ask" /\ pc'[p] # "ask"
          /\ Knowledge(p) = Combined("", ""))
         => (calls'[p] = <<>> /\ out'[p] = NoDataAnswer(p))]_vars

\* C2: after a failed probe and a listing that came back, the model used is the
\* first listed identifier containing "sonnet", else the first containing
\* "haiku", and with neither the resolution raises and no identifier is used.
C2_SonnetThenHaikuElseError ==
    LET cs == calls["tg"]
    IN (Len(cs) >= 2 /\ cs[2].op = "list" /\ cs[2].ok) =>
        LET ids == cs[2].ids
            sonnets == Matching(ids, "sonnet")
            haikus == Matching(ids, "haiku")
        IN IF sonnets # {}
           THEN Len(cs) = 3 /\ cs[3].op = "create" /\ cs[3].model = ids[Least(sonnets)]
                /\ ~raised["tg"]
           ELSE IF haikus # {}
           THEN Len(cs) = 3 /\ cs[3].op = "create" /\ cs[3].model = ids[Least(haikus)]
                /\ ~raised["tg"]
           ELSE Len(cs) = 2 /\ raised["tg"]

\* C2's case: a haiku identifier listed before a sonnet one, the sonnet one used.
C2_Witness ==
    LET cs == calls["tg"]
    IN /\ Len(cs) = 3
       /\ cs[2].op = "list"
       /\ cs[2].ids = <<"claude-haiku-10", "claude-sonnet-20">>
       /\ cs[3].model = "claude-sonnet-20"

\* C3: when the probe succeeds the model used is exactly PREFERRED_ALIAS and
\* the request makes no models.list call.
C3_ProbeSuccessUsesAlias ==
    LET cs == calls["tg"]
    IN (cs # <<>> /\ cs[1].op = "probe" /\ cs[1].ok) =>
        /\ \A i \in 1..Len(cs) : cs[i].op # "list"
        /\ Len(cs) = 2
        /\ cs[2].op = "create"
        /\ cs[2].model = PREFERRED_ALIAS

\* C3's case: a request whose probe succeeded and whose completion was asked of
\* the alias.
C3_Witness ==
    LET cs == calls["tg"]
    IN /\ pc["tg"] = "done"
       /\ Len(cs) = 2
       /\ cs[1].ok
       /\ cs[2].op = "create"
       /\ cs[2].model = PREFERRED_ALIAS
       /\ cs[2].ok

\* C4: once the cache file exists, a get_catalog call goes to the file, returns
\* its content verbatim and writes neither the file nor the folder; and the
\* file changes only in the open or the write of a load_all_pdfs.
C4_CacheAuthoritative ==
    [][/\ \A p \in Procs :
            /\ (Free(p) /\ ~Free(p)' /\ req'[p] \in Queries /\ cacheFile.exists)
                   => pc'[p] = "gc_read"
            /\ ReadsCache(p)
                   => /\ pc'[p] = "ask"
                      /\ catalog'[p] = cacheFile.content
                      /\ catalog_from'[p] = "cache"
                      /\ cacheFile' = cacheFile
                      /\ pdfDirExists' = pdfDirExists
       /\ cacheFile' # cacheFile
              => \E q \in Procs : pc[q] \in {"lap_open", "lap_write"} /\ pc'[q] # pc[q]]_vars

\* C4's case: a query answered from the cache although the folder now holds
\* other documents than the cache was built from.
C4_Witness ==
    \E p \in Procs :
        /\ pc[p] = "ask"
        /\ catalog_from[p] = "cache"
        /\ cacheFile.exists
        /\ catalog[p] = cacheFile.content
        /\ catalog[p] # ""
        /\ catalog[p] # BuildCatalog(pdfs, SortedPdfFiles(pdfs))

\* C5 as stated: every eligible document of the folder, readable or not, has its
\* banner section in the corpus load_all_pdfs builds.
C5_EveryDocumentHasSection ==
    [][(Globs("tg") /\ pc'["tg"] = "lap_open")
          => /\ \A n \in Eligible(pdfs) : Occurrences(full_catalog'["tg"], Header(n)) = 1
             /\ Occurrences(full_catalog'["tg"], "ARCHIVO: ") = Cardinality(Eligible(pdfs))]_vars

\* C5 amended: a document whose extraction fails or yields "" has no section,
\* every other eligible document has exactly one, and the build goes on past
\* the documents without text; the corpus is what the write puts in the file.
C5_SectionsOfDocumentsWithText ==
    [][/\ (Globs("tg") /\ pc'["tg"] = "lap_open")
          => /\ \A n \in Names :
                   Occurrences(full_catalog'["tg"], Header(n))
                       = (IF n \in WithText(pdfs) THEN 1 ELSE 0)
             /\ Occurrences(full_catalog'["tg"], "ARCHIVO: ") = Cardinality(WithText(pdfs))
       /\ (pc["tg"] = "lap_write" /\ pc'["tg"] # "lap_write")
          => cacheFile' = CacheWith(full_catalog["tg"])]_vars

\* C5's case: a build over an unreadable a.pdf and a readable b.pdf.
C5_Witness ==
    /\ pc["tg"] = "lap_open"
    /\ pdfs["a.pdf"] = Corrupt
    /\ pdfs["b.pdf"] = GoodPdf
    /\ full_catalog["tg"] = Section("b.pdf", extract_text_from_pdf(GoodPdf))

\* C6: when the model resolution fails in handle_message the user gets an
\* error message, no completion is asked and no exception leaves the handler.
C6_ResolutionFailureSurfaced ==
    LET cs == calls["tg"]
    IN (pc["tg"] = "done" /\ req["tg"] = "message" /\ cs # <<>> /\ cs[Len(cs)].op = "list")
        => (out["tg"] # <<>> /\ ~raised["tg"])

\* C7: the replies of a completed answer are ceil(len / 3900) >= 1 chunks in
\* order, all of length 3900 but the last, which has 1..3900 characters, and
\* together they are the response text.
C7_ChunksRoundTrip ==
    LET cs == calls["tg"]
    IN (cs # <<>> /\ cs[Len(cs)].op = "create" /\ cs[Len(cs)].ok) =>
        LET text == ResponseText(cs[Len(cs)].content)
            sent == out["tg"]
            n == Len(sent)
        IN /\ n >= 1
           /\ n = (Len(text) + MAX_LEN - 1) \div MAX_LEN
           /\ \A i \in 1..(n - 1) : Len(sent[i]) = MAX_LEN
           /\ Len(sent[n]) \in 1..MAX_LEN
           /\ Join(sent) = text

\* C7's case: a response of 7800 characters sent as two chunks of 3900.
C7_Witness ==
    LET cs == calls["tg"]
    IN /\ cs # <<>>
       /\ cs[Len(cs)].op = "create"
       /\ Len(ResponseText(cs[Len(cs)].content)) = 2 * MAX_LEN
       /\ Len(out["tg"]) = 2
       /\ Len(out["tg"][1]) = MAX_LEN
       /\ Len(out["tg"][2]) = MAX_LEN

\* C8: load_all_pdfs over a folder without PDFs, existing or not, makes the
\* folder, returns "" at once and leaves the cache file as it was.
C8_NoPdfsNoCache ==
    [][(Globs("tg") /\ Eligible(pdfs) = {})
          => /\ pdfDirExists'
             /\ cacheFile' = cacheFile
             /\ pc'["tg"] \in {"ask", "done"}
             /\ req["tg"] = "message"
                    => (pc'["tg"] = "ask" /\ catalog'["tg"] = ""
                        /\ catalog_from'["tg"] = "build")
             /\ req["tg"] = "actualizar"
                    => out'["tg"] = <<ReloadingReply, NoPdfsReply>>]_vars

\* C8's case: get_catalog built over a folder the call had to create, and there
\* is still no cache file.
C8_Witness ==
    /\ pc["tg"] = "ask"
    /\ catalog_from["tg"] = "build"
    /\ catalog["tg"] = ""
    /\ pdfDirExists
    /\ pdfs = EmptyDir
    /\ ~cacheFile.exists

\* C9: nothing holds a reader back while the other thread rebuilds: the open of
\* load_all_pdfs leaves the cache file existing and empty, the corpus arrives
\* only with the write, and a get_catalog read that falls in between returns
\* what the file holds at that moment.
C9_ReadDuringRebuildIsTorn ==
    [][\A p \in Procs :
         /\ (pc[p] = "lap_open" /\ pc'[p] = "lap_write")
                => (cacheFile' = CacheWith("") /\ replaced'[p] = cacheFile.content)
         /\ (ReadsCache(p) /\ pc[Other(p)] = "lap_write")
                => (pc'[p] = "ask" /\ catalog'[p] = cacheFile.content)]_vars

\* C9's case: a query holds the empty string as the cache's content while the
\* other thread's rebuild has discarded a non-empty cache and not yet written
\* the new corpus.
C9_Witness ==
    \E p \in Procs :
        /\ pc[p] = "ask"
        /\ catalog_from[p] = "cache"
        /\ catalog[p] = ""
        /\ pc[Other(p)] = "lap_write"
        /\ replaced[Other(p)] # ""
        /\ full_catalog[Other(p)] # ""

\* C10: /actualizar over a folder without PDFs returns before the write: the
\* cache file is left as it was and the reply says there are no PDFs; a later
\* get_catalog read returns that stale content.
C10_EmptyRebuildKeepsCache ==
    [][/\ (Globs("tg") /\ req["tg"] = "actualizar" /\ Eligible(pdfs) = {})
          => /\ cacheFile' = cacheFile
             /\ pc'["tg"] = "done"
             /\ out'["tg"] = <<ReloadingReply, NoPdfsReply>>
       /\ (ReadsCache("tg") /\ Eligible(pdfs) = {})
          => catalog'["tg"] = cacheFile.content]_vars

\* C10's case: the rebuild has answered that there are no PDFs, the folder is
\* empty and the cache file still holds a catalog.
C10_Witness ==
    /\ pc["tg"] = "done"
    /\ req["tg"] = "actualizar"
    /\ out["tg"] = <<ReloadingReply, NoPdfsReply>>
    /\ pdfs = EmptyDir
    /\ cacheFile.exists
    /\ cacheFile.content # ""

====
